---- MODULE Spec2Model ----
(***************************************************************************)
(* Model of the number-theoretic core of the `ads` crate:                  *)
(*   src/v1/math/gcd.rs : gcd_many (Stein), gcd, extended_gcd (Euclid)      *)
(*   src/v1/math/lcm.rs : lcm_many, lcm                                     *)
(* The machine integers are modelled at a reduced width: unsigned values   *)
(* live in 0 .. 2^Width - 1 and signed values in                           *)
(* -2^(Width-1) .. 2^(Width-1) - 1.  Every arithmetic operation of the     *)
(* code is modelled with its machine semantics: a build with overflow      *)
(* checks panics on +,-,* overflow and on a shift by >= Width, a build      *)
(* without them wraps (and masks the shift amount); `as` casts and bits    *)
(* shifted out by << are silent in both builds; division by zero panics    *)
(* in both builds.                                                         *)
(***************************************************************************)
EXTENDS Integers, Sequences, FiniteSets, TLC

\* ------------------------------------------------------------- bounds ----
\* Bit width standing for the 64 bits of u64 / i64.
Width == 4
\* Longest slice handed to gcd_many / lcm_many.
MaxLen == 3
\* Largest element of a slice handed to gcd_many / lcm_many (the pairwise
\* functions gcd, lcm and extended_gcd draw from the whole unsigned range).
MaxVal == 4

\* ------------------------------------------------- machine arithmetic ----
Modulus == 2^Width
UMax == Modulus - 1
SMin == 0 - 2^(Width - 1)
SMax == 2^(Width - 1) - 1
UVals == 0 .. UMax
SVals == SMin .. SMax

\* Wrapping to the unsigned / signed type (two's complement).
WrapU(n) == n % Modulus
WrapS(n) == ((n - SMin) % Modulus) + SMin

\* u64::trailing_zeros: the number of low zero bits; Width for 0.
RECURSIVE tz_from(_, _)
tz_from(n, k) ==
    IF k >= Width THEN Width
    ELSE IF n % 2 = 1 THEN k
    ELSE tz_from(n \div 2, k + 1)

trailing_zeros(n) == tz_from(n, 0)

\* Bitwise or of two unsigned values.
RECURSIVE BitOr(_, _)
BitOr(a, b) ==
    IF a = 0 THEN b
    ELSE IF b = 0 THEN a
    ELSE (IF a % 2 = 1 \/ b % 2 = 1 THEN 1 ELSE 0)
         + 2 * BitOr(a \div 2, b \div 2)

\* v >> n and v << n as the machine computes them when it does not panic:
\* the shift amount is taken modulo the width, bits shifted out are lost.
Shr(v, n) == v \div (2^(n % Width))
Shl(v, n) == WrapU(v * 2^(n % Width))

\* Faults after which a build with overflow checks panics.
OverflowPanics ==
    {"u_sub_overflow", "u_mul_overflow", "i_sub_overflow", "i_mul_overflow",
     "shift_overflow"}
\* Faults after which every build panics.
AlwaysPanics == {"div_by_zero"}
\* Faults that no build reports: a value-changing `as` cast, bits lost by <<.
SilentFaults == {"cast_wrap", "shl_lost_bits"}

\* ------------------------------------------------------------ state ------
VARIABLES
    overflow_checks,  \* TRUE: the build panics on arithmetic overflow
    fn,               \* the public function that was called
    elems,            \* its arguments (a slice, or the pair <<lhs, rhs>>)
    pc,               \* position of the call
    idx,              \* position of the fold's iterator in elems (1-based)
    acc,              \* the fold's accumulator
    lhs, rhs, shift,  \* locals of the closure of gcd_many
    gcd_res,          \* local `gcd` of lcm_many
    x, y, x1, y1, lhs1, rhs1,   \* locals of extended_gcd
    result,           \* the returned unsigned value
    faults            \* arithmetic faults the call has run into so far

vars == <<overflow_checks, fn, elems, pc, idx, acc, lhs, rhs, shift, gcd_res,
          x, y, x1, y1, lhs1, rhs1, result, faults>>

gcdLocals == <<lhs, rhs, shift>>
euclidLocals == <<x, y, x1, y1, lhs1, rhs1>>

\* The slices gcd_many and lcm_many are called with.
Slices == UNION {[1 .. n -> 0 .. MaxVal] : n \in 0 .. MaxLen}

\* Does the call panic on the faults fs?
Panics(fs) ==
    \/ fs \cap AlwaysPanics # {}
    \/ overflow_checks /\ fs \cap OverflowPanics # {}

Init ==
    /\ overflow_checks \in BOOLEAN
    /\ fn = "none"
    /\ elems = <<>>
    /\ pc = "idle"
    /\ idx = 0
    /\ acc = 0
    /\ lhs = 0 /\ rhs = 0 /\ shift = 0
    /\ gcd_res = 0
    /\ x = 0 /\ y = 0 /\ x1 = 0 /\ y1 = 0 /\ lhs1 = 0 /\ rhs1 = 0
    /\ result = 0
    /\ faults = {}

\* --------------------------------------------------- gcd_many (Stein) ----
\* Fault seeded for C8: the comparison of the swap step reversed.
SwapNeeded_Flipped(l, r) == r < l

\* `if rhs > lhs { swap(&mut lhs, &mut rhs) }`
SwapNeeded(l, r) == r > l

\* `while lhs > 0`
SteinGuard(l) == l > 0

\* Fault seeded for C1: the common power of two is not restored.
SteinResult_NoShift(r, sh) == r

\* `rhs << shift`
SteinResult(r, sh) == Shl(r, sh)

\* One pass through the body of `while lhs > 0` from (lhs, rhs) = (l, r).
SteinBody(l, r) ==
    LET n  == trailing_zeros(l)
        l1 == Shr(l, n)
        sw == SwapNeeded(l1, r)
        a  == IF sw THEN r ELSE l1
        b  == IF sw THEN l1 ELSE r
    IN  [lhs    |-> WrapU(a - b),
         rhs    |-> b,
         faults |-> (IF n >= Width THEN {"shift_overflow"} ELSE {})
                    \cup (IF a < b THEN {"u_sub_overflow"} ELSE {})]

\* The loop run to its end, as a function of its entry state.
RECURSIVE stein_loop(_, _)
stein_loop(l, r) ==
    IF SteinGuard(l)
    THEN LET b == SteinBody(l, r) IN stein_loop(b.lhs, b.rhs)
    ELSE r

\* `if lhs == 0 || rhs == 0 { return lhs | rhs; }`
ZeroOperand(l, r) == l = 0 \/ r = 0

\* The closure folded over the slice: |acc, e| -> binary GCD of acc and e.
gcd_closure(a, e) ==
    IF ZeroOperand(a, e) THEN BitOr(a, e)
    ELSE LET sh == trailing_zeros(BitOr(a, e))
             r0 == Shr(e, trailing_zeros(e))
         IN  SteinResult(stein_loop(a, r0), sh)

\* elems.iter().fold(0, closure)
RECURSIVE gcd_fold_from(_, _, _)
gcd_fold_from(s, i, a) ==
    IF i > Len(s) THEN a
    ELSE gcd_fold_from(s, i + 1, gcd_closure(a, s[i]))

gcd_fold(s) == gcd_fold_from(s, 1, 0)

gcd_many(s) ==
    IF Len(s) = 0 THEN 0
    ELSE IF Len(s) = 1 THEN s[1]
    ELSE gcd_fold(s)

gcd(l, r) == gcd_many(<<l, r>>)

\* ------------------------------------------------------------ lcm_many ---
\* Fault seeded for C5: the guard against a zero divisor is missing.
GcdIsZero_Never(d) == FALSE

\* `if gcd == 0 { return 0; }`
GcdIsZero(d) == d = 0

\* elems[1..].iter().fold(elems[0] / gcd, |acc, e| acc * e), wrapping.
RECURSIVE lcm_fold_from(_, _, _)
lcm_fold_from(s, i, a) ==
    IF i > Len(s) THEN a
    ELSE lcm_fold_from(s, i + 1, WrapU(a * s[i]))

\* Fault seeded for C4: the first element is not divided by the GCD.
LcmSeed_NoDiv(e0, d) == e0

\* The seed of the fold: `elems[0] / gcd`.
LcmSeed(e0, d) == e0 \div d

\* Lines 42-49 of lcm_many: what the function computes once the empty and
\* single-element returns are behind it.
lcm_general(s) ==
    LET d == gcd_many(s)
    IN  IF GcdIsZero(d) THEN 0
        ELSE lcm_fold_from(s, 2, LcmSeed(s[1], d))

\* Fault seeded for C6: a single element is sent down the general path.
LcmSingle_ViaFold(s) == lcm_general(s)

\* `if elems.len() == 1 { return elems[0]; }` of lcm_many.
LcmSingle(s) == s[1]

lcm_many(s) ==
    IF Len(s) = 0 THEN 0
    ELSE IF Len(s) = 1 THEN LcmSingle(s)
    ELSE lcm_general(s)

lcm(l, r) == lcm_many(<<l, r>>)

\* -------------------------------------------------------- extended_gcd ---
\* Fault seeded for C7: the two pairs of initial coefficients exchanged.
EuclidInit_Swapped(l, r) ==
    [x |-> 0, y |-> 1, x1 |-> 1, y1 |-> 0, lhs1 |-> l, rhs1 |-> r]

\* `let (mut x, mut y) = (1, 0); let (mut x1, mut y1, ..) = (0, 1, ..)`
EuclidInit(l, r) ==
    [x |-> 1, y |-> 0, x1 |-> 0, y1 |-> 1, lhs1 |-> l, rhs1 |-> r]

\* `while rhs1 > 0`
EuclidGuard(r) == r > 0

\* Fault seeded for C2: the recurrence adds where it has to subtract.
NewCoeff_Plus(c, q, c1) ==
    LET qs   == WrapS(q)
        prod == qs * c1
        sum  == c + WrapS(prod)
    IN  [val    |-> WrapS(sum),
         faults |-> (IF qs # q THEN {"cast_wrap"} ELSE {})
                    \cup (IF prod \notin SVals THEN {"i_mul_overflow"} ELSE {})
                    \cup (IF sum \notin SVals THEN {"i_sub_overflow"} ELSE {})]

\* `c - (q as i64) * c1` in i64 arithmetic, with the faults it runs into.
NewCoeff(c, q, c1) ==
    LET qs   == WrapS(q)
        prod == qs * c1
        diff == c - WrapS(prod)
    IN  [val    |-> WrapS(diff),
         faults |-> (IF qs # q THEN {"cast_wrap"} ELSE {})
                    \cup (IF prod \notin SVals THEN {"i_mul_overflow"} ELSE {})
                    \cup (IF diff \notin SVals THEN {"i_sub_overflow"} ELSE {})]

\* Fault seeded for C10: the quotient is left out of the new remainder.
NewRemainder_NoQuotient(l, q, r) ==
    [val    |-> WrapU(l - r),
     faults |-> IF l < r THEN {"u_sub_overflow"} ELSE {}]

\* `lhs1 - q * rhs1` in u64 arithmetic, with the faults it runs into.
NewRemainder(l, q, r) ==
    LET prod == q * r
        diff == l - WrapU(prod)
    IN  [val    |-> WrapU(diff),
         faults |-> (IF prod > UMax THEN {"u_mul_overflow"} ELSE {})
                    \cup (IF diff < 0 THEN {"u_sub_overflow"} ELSE {})]

\* ------------------------------------------------------------- actions ---
\* A public function is called.
CallGcdMany ==
    /\ pc = "idle"
    /\ \E s \in Slices :
          fn' = "gcd_many" /\ elems' = s /\ pc' = "gcd_entry"
    /\ UNCHANGED <<overflow_checks, idx, acc, gcdLocals, gcd_res,
                   euclidLocals, result, faults>>

CallGcd ==
    /\ pc = "idle"
    /\ \E l \in UVals, r \in UVals :
          fn' = "gcd" /\ elems' = <<l, r>> /\ pc' = "gcd_entry"
    /\ UNCHANGED <<overflow_checks, idx, acc, gcdLocals, gcd_res,
                   euclidLocals, result, faults>>

CallLcmMany ==
    /\ pc = "idle"
    /\ \E s \in Slices :
          fn' = "lcm_many" /\ elems' = s /\ pc' = "lcm_entry"
    /\ UNCHANGED <<overflow_checks, idx, acc, gcdLocals, gcd_res,
                   euclidLocals, result, faults>>

CallLcm ==
    /\ pc = "idle"
    /\ \E l \in UVals, r \in UVals :
          fn' = "lcm" /\ elems' = <<l, r>> /\ pc' = "lcm_entry"
    /\ UNCHANGED <<overflow_checks, idx, acc, gcdLocals, gcd_res,
                   euclidLocals, result, faults>>

CallExtendedGcd ==
    /\ pc = "idle"
    /\ \E l \in UVals, r \in UVals :
          /\ fn' = "extended_gcd" /\ elems' = <<l, r>> /\ pc' = "euclid"
          /\ LET i == EuclidInit(l, r)
             IN  /\ x' = i.x /\ y' = i.y /\ x1' = i.x1 /\ y1' = i.y1
                 /\ lhs1' = i.lhs1 /\ rhs1' = i.rhs1
    /\ UNCHANGED <<overflow_checks, idx, acc, gcdLocals, gcd_res, result,
                   faults>>

\* gcd_many hands v back: to the caller of gcd_many / gcd, or to lcm_many.
GcdManyReturns(v) ==
    IF fn \in {"lcm_many", "lcm"}
    THEN gcd_res' = v /\ pc' = "lcm_guard" /\ UNCHANGED result
    ELSE result' = v /\ pc' = "ret" /\ UNCHANGED gcd_res

\* gcd_many: the empty and single-element returns, else the fold starts.
GcdManyEntry ==
    /\ pc = "gcd_entry"
    /\ IF Len(elems) = 0
       THEN GcdManyReturns(0) /\ UNCHANGED <<idx, acc>>
       ELSE IF Len(elems) = 1
       THEN GcdManyReturns(elems[1]) /\ UNCHANGED <<idx, acc>>
       ELSE /\ acc' = 0 /\ idx' = 1 /\ pc' = "fold"
            /\ UNCHANGED <<gcd_res, result>>
    /\ UNCHANGED <<overflow_checks, fn, elems, gcdLocals, euclidLocals,
                   faults>>

\* The fold is exhausted: gcd_many returns the accumulator.
GcdFoldDone ==
    /\ pc = "fold" /\ idx > Len(elems)
    /\ GcdManyReturns(acc)
    /\ UNCHANGED <<overflow_checks, fn, elems, idx, acc, gcdLocals,
                   euclidLocals, faults>>

\* The closure is entered with (acc, elems[idx]); one operand is zero.
GcdClosureZero ==
    /\ pc = "fold" /\ idx <= Len(elems)
    /\ ZeroOperand(acc, elems[idx])
    /\ acc' = BitOr(acc, elems[idx])
    /\ idx' = idx + 1
    /\ UNCHANGED <<overflow_checks, fn, elems, pc, gcdLocals, gcd_res,
                   euclidLocals, result, faults>>

\* The closure is entered with two nonzero operands: shift is taken and rhs
\* is made odd.
GcdClosureEnter ==
    /\ pc = "fold" /\ idx <= Len(elems)
    /\ ~ZeroOperand(acc, elems[idx])
    /\ LET e  == elems[idx]
           n  == trailing_zeros(e)
           fs == IF n >= Width THEN {"shift_overflow"} ELSE {}
       IN  /\ faults' = faults \cup fs
           /\ IF Panics(fs)
              THEN pc' = "panic" /\ UNCHANGED gcdLocals
              ELSE /\ lhs' = acc
                   /\ rhs' = Shr(e, n)
                   /\ shift' = trailing_zeros(BitOr(acc, e))
                   /\ pc' = "stein"
    /\ UNCHANGED <<overflow_checks, fn, elems, idx, acc, gcd_res,
                   euclidLocals, result>>

\* One iteration of `while lhs > 0`.
SteinIter ==
    /\ pc = "stein" /\ SteinGuard(lhs)
    /\ LET b == SteinBody(lhs, rhs)
       IN  /\ faults' = faults \cup b.faults
           /\ IF Panics(b.faults)
              THEN pc' = "panic" /\ UNCHANGED <<lhs, rhs>>
              ELSE lhs' = b.lhs /\ rhs' = b.rhs /\ UNCHANGED pc
    /\ UNCHANGED <<overflow_checks, fn, elems, idx, acc, shift, gcd_res,
                   euclidLocals, result>>

\* The loop is left: the closure returns rhs << shift to the fold.
SteinExit ==
    /\ pc = "stein" /\ ~SteinGuard(lhs)
    /\ acc' = SteinResult(rhs, shift)
    /\ faults' = faults
                 \cup (IF shift >= Width THEN {"shift_overflow"} ELSE {})
                 \cup (IF rhs * 2^shift > UMax THEN {"shl_lost_bits"} ELSE {})
    /\ IF overflow_checks /\ shift >= Width
       THEN pc' = "panic" /\ UNCHANGED idx
       ELSE pc' = "fold" /\ idx' = idx + 1
    /\ UNCHANGED <<overflow_checks, fn, elems, gcdLocals, gcd_res,
                   euclidLocals, result>>

\* lcm_many: the empty and single-element returns, else gcd_many is called.
LcmManyEntry ==
    /\ pc = "lcm_entry"
    /\ IF Len(elems) = 0
       THEN result' = 0 /\ pc' = "ret"
       ELSE IF Len(elems) = 1
       THEN result' = LcmSingle(elems) /\ pc' = "ret"
       ELSE pc' = "gcd_entry" /\ UNCHANGED result
    /\ UNCHANGED <<overflow_checks, fn, elems, idx, acc, gcdLocals, gcd_res,
                   euclidLocals, faults>>

\* `if gcd == 0 { return 0; }`
LcmGuard ==
    /\ pc = "lcm_guard"
    /\ IF GcdIsZero(gcd_res)
       THEN result' = 0 /\ pc' = "ret"
       ELSE pc' = "lcm_div" /\ UNCHANGED result
    /\ UNCHANGED <<overflow_checks, fn, elems, idx, acc, gcdLocals, gcd_res,
                   euclidLocals, faults>>

\* The seed of the fold: elems[0] / gcd.
LcmDiv ==
    /\ pc = "lcm_div"
    /\ IF gcd_res = 0
       THEN /\ faults' = faults \cup {"div_by_zero"}
            /\ pc' = "panic"
            /\ UNCHANGED <<acc, idx>>
       ELSE /\ acc' = LcmSeed(elems[1], gcd_res)
            /\ idx' = 2
            /\ pc' = "lcm_fold"
            /\ UNCHANGED faults
    /\ UNCHANGED <<overflow_checks, fn, elems, gcdLocals, gcd_res,
                   euclidLocals, result>>

\* One step of the fold: acc * e.
LcmFoldStep ==
    /\ pc = "lcm_fold" /\ idx <= Len(elems)
    /\ LET prod == acc * elems[idx]
           fs   == IF prod > UMax THEN {"u_mul_overflow"} ELSE {}
       IN  /\ faults' = faults \cup fs
           /\ IF Panics(fs)
              THEN pc' = "panic" /\ UNCHANGED <<acc, idx>>
              ELSE acc' = WrapU(prod) /\ idx' = idx + 1 /\ UNCHANGED pc
    /\ UNCHANGED <<overflow_checks, fn, elems, gcdLocals, gcd_res,
                   euclidLocals, result>>

\* The fold is exhausted: lcm_many returns the accumulator.
LcmFoldDone ==
    /\ pc = "lcm_fold" /\ idx > Len(elems)
    /\ result' = acc /\ pc' = "ret"
    /\ UNCHANGED <<overflow_checks, fn, elems, idx, acc, gcdLocals, gcd_res,
                   euclidLocals, faults>>

\* One iteration of `while rhs1 > 0`.
EuclidIter ==
    /\ pc = "euclid" /\ EuclidGuard(rhs1)
    /\ LET q  == lhs1 \div rhs1
           nx == NewCoeff(x, q, x1)
           ny == NewCoeff(y, q, y1)
           nr == NewRemainder(lhs1, q, rhs1)
           fs == nx.faults \cup ny.faults \cup nr.faults
       IN  /\ faults' = faults \cup fs
           /\ IF Panics(fs)
              THEN pc' = "panic" /\ UNCHANGED euclidLocals
              ELSE /\ x' = x1 /\ x1' = nx.val
                   /\ y' = y1 /\ y1' = ny.val
                   /\ lhs1' = rhs1 /\ rhs1' = nr.val
                   /\ UNCHANGED pc
    /\ UNCHANGED <<overflow_checks, fn, elems, idx, acc, gcdLocals, gcd_res,
                   result>>

\* The loop is left: extended_gcd returns (lhs1, x, y).
EuclidExit ==
    /\ pc = "euclid" /\ ~EuclidGuard(rhs1)
    /\ result' = lhs1 /\ pc' = "ret"
    /\ UNCHANGED <<overflow_checks, fn, elems, idx, acc, gcdLocals, gcd_res,
                   euclidLocals, faults>>

Next ==
    \/ CallGcdMany
    \/ CallGcd
    \/ CallLcmMany
    \/ CallLcm
    \/ CallExtendedGcd
    \/ GcdManyEntry
    \/ GcdFoldDone
    \/ GcdClosureZero
    \/ GcdClosureEnter
    \/ SteinIter
    \/ SteinExit
    \/ LcmManyEntry
    \/ LcmGuard
    \/ LcmDiv
    \/ LcmFoldStep
    \/ LcmFoldDone
    \/ EuclidIter
    \/ EuclidExit

Spec == Init /\ [][Next]_vars

\* The code is sequential and never waits: a call that can take a step does.
FairSpec == Spec /\ WF_vars(Next)

\* ------------------------------------------------- reference notions -----
\* d divides n evenly (0 divides only 0).
Divides(d, n) == IF d = 0 THEN n = 0 ELSE n % d = 0

CommonDivisor(d, s) == \A i \in 1 .. Len(s) : Divides(d, s[i])
CommonMultiple(m, s) == \A i \in 1 .. Len(s) : Divides(s[i], m)
AllZero(s) == \A i \in 1 .. Len(s) : s[i] = 0

InGcd == fn \in {"gcd_many", "gcd"}
InLcm == fn \in {"lcm_many", "lcm"}
InEuclid == fn = "extended_gcd"

\* The actions compute what the operators gcd_many, lcm_many compute.
StepwiseMatchesOperators ==
    /\ (InGcd /\ pc = "ret") => result = gcd_many(elems)
    /\ (InLcm /\ pc = "lcm_guard") => gcd_res = gcd_many(elems)
    /\ (InLcm /\ pc = "ret") => result = lcm_many(elems)

\* A value v that gcd_many has just returned for elems is their greatest
\* common divisor.
IsGreatestCommonDivisor(v, s) ==
    /\ CommonDivisor(v, s)
    /\ \A d \in 1 .. UMax : CommonDivisor(d, s) /\ ~AllZero(s) => d <= v
    /\ AllZero(s) => v = 0

\* C1: for every non-empty slice (zeros and duplicates allowed), the value
\* gcd_many returns divides every element evenly and no larger integer
\* divides every element; it is 0 when all elements are 0.
C1_GcdManyIsGcd ==
    /\ (InGcd /\ pc = "ret" /\ Len(elems) >= 1)
           => IsGreatestCommonDivisor(result, elems)
    /\ (InLcm /\ pc = "lcm_guard")
           => IsGreatestCommonDivisor(gcd_res, elems)

C1_Witness ==
    /\ fn = "gcd_many" /\ pc = "ret" /\ Len(elems) = 3
    /\ elems[1] = elems[3] /\ elems[2] = 0
    /\ result = 4

C3_LcmManyIsLeastCommonMultiple ==
    (fn = "lcm_many" /\ pc = "ret" /\ Len(elems) >= 1
        /\ faults = {} /\ result # 0)
        => /\ CommonMultiple(result, elems)
           /\ \A m \in 1 .. result - 1 : ~CommonMultiple(m, elems)

\* C4: when lhs*rhs/gcd fits the unsigned range, lcm(lhs, rhs) returns (no
\* panic), equals lcm_many([lhs, rhs]) and is lhs*rhs/gcd(lhs, rhs), the
\* least common multiple, when an operand is nonzero (0 if exactly one is
\* 0); it is 0 when both are 0.
C4_PairwiseLcm ==
    LET l == elems[1]
        r == elems[2]
        fits == (l * r) \div gcd(l, r) <= UMax
    IN  /\ (fn = "lcm" /\ pc = "ret" /\ l = 0 /\ r = 0) => result = 0
        /\ (fn = "lcm" /\ pc = "ret" /\ (l # 0 \/ r # 0) /\ fits)
              => /\ result = (l * r) \div gcd(l, r)
                 /\ result = lcm_many(<<l, r>>)
                 /\ (l = 0 \/ r = 0) => result = 0
                 /\ (l # 0 /\ r # 0)
                       => /\ CommonMultiple(result, elems)
                          /\ \A m \in 1 .. result - 1 :
                                 ~CommonMultiple(m, elems)
        /\ (fn = "lcm" /\ pc = "panic") => ((l # 0 \/ r # 0) /\ ~fits)

C4_Witness ==
    /\ fn = "lcm" /\ pc = "ret" /\ overflow_checks
    /\ elems = <<6, 4>> /\ result = 12

\* C5: lcm_many never divides by zero: for a slice of length >= 2 the GCD it
\* computes is 0 exactly when every element is 0, it then returns 0 without
\* reaching the division elems[0] / gcd, and otherwise the divisor is not 0.
C5_NoDivisionByZero ==
    /\ (InLcm /\ pc \in {"lcm_guard", "lcm_div", "lcm_fold"})
          => (gcd_res = 0 <=> AllZero(elems))
    /\ pc = "lcm_div" => gcd_res # 0
    /\ "div_by_zero" \notin faults
    /\ (InLcm /\ pc = "ret" /\ Len(elems) >= 2 /\ AllZero(elems))
          => result = 0
    /\ (InLcm /\ AllZero(elems)) => pc \notin {"lcm_div", "lcm_fold"}

C5_Witness ==
    /\ fn = "lcm_many" /\ pc = "ret" /\ Len(elems) = 3
    /\ AllZero(elems) /\ gcd_res = 0 /\ result = 0

\* The value the code past the early returns would compute for the slice.
GeneralPath ==
    IF fn = "gcd_many" THEN gcd_fold(elems) ELSE lcm_general(elems)

\* C6 as stated: gcd_many([]) = lcm_many([]) = 0, gcd_many([x]) =
\* lcm_many([x]) = x for every x, and the single-element result is the value
\* the general fold would have produced for that one element.
C6_AsStated ==
    (fn \in {"gcd_many", "lcm_many"} /\ pc = "ret")
        => /\ Len(elems) = 0 => result = 0
           /\ Len(elems) = 1
                 => (result = elems[1] /\ result = GeneralPath)

\* C6 as amended: gcd_many([]) = lcm_many([]) = 0, gcd_many([x]) =
\* lcm_many([x]) = x for every x; for gcd_many that is the value the general
\* fold would have produced, for lcm_many the general path would have
\* produced 1 for every x >= 1 (and 0 for x = 0), which is x only for x <= 1.
C6_EmptyAndSingle ==
    (fn \in {"gcd_many", "lcm_many"} /\ pc = "ret")
        => /\ Len(elems) = 0 => result = 0
           /\ Len(elems) = 1
                 => /\ result = elems[1]
                    /\ fn = "gcd_many" => result = GeneralPath
                    /\ fn = "lcm_many"
                          => GeneralPath = (IF elems[1] = 0 THEN 0 ELSE 1)

C6_Witness ==
    /\ fn = "lcm_many" /\ pc = "ret" /\ Len(elems) = 1
    /\ elems[1] >= 2 /\ result = elems[1]

\* C7: extended_gcd(lhs, 0) returns exactly (lhs, 1, 0) for every lhs, so
\* (0, 1, 0) for (0, 0), and extended_gcd(0, rhs) returns exactly
\* (rhs, 0, 1) for every rhs # 0.
C7_ZeroOperands ==
    (InEuclid /\ pc \in {"ret", "panic"})
        => /\ pc = "ret"
              \/ (elems[1] # 0 /\ elems[2] # 0)
           /\ elems[2] = 0
                 => <<result, x, y>> = <<elems[1], 1, 0>>
           /\ (elems[1] = 0 /\ elems[2] # 0)
                 => <<result, x, y>> = <<elems[2], 0, 1>>

C7_Witness ==
    /\ InEuclid /\ pc = "ret" /\ overflow_checks
    /\ elems[1] = 0 /\ elems[2] = UMax
    /\ <<result, x, y>> = <<UMax, 0, 1>>

\* C8: in the binary-GCD reduction, for nonzero operands of the full width,
\* in every loop state: lhs -= rhs runs with lhs >= rhs and both odd, every
\* right shift is by the trailing zeros of a nonzero value, so by at most
\* Width - 1, and rhs << shift loses no bits and does not exceed the larger
\* operand; no unsigned overflow or underflow occurs.
C8_SteinNoOverflow ==
    /\ faults \cap {"u_sub_overflow", "shift_overflow", "shl_lost_bits"} # {}
          => InEuclid
    /\ (InGcd \/ InLcm) => pc # "panic" \/ "u_mul_overflow" \in faults
    /\ pc = "stein"
          => /\ acc > 0 /\ elems[idx] > 0
             /\ rhs > 0 /\ rhs % 2 = 1
             /\ shift <= Width - 1
             /\ trailing_zeros(elems[idx]) <= Width - 1
             /\ lhs > 0
                   => LET n  == trailing_zeros(lhs)
                          l1 == Shr(lhs, n)
                      IN  /\ n <= Width - 1
                          /\ l1 % 2 = 1
                          /\ IF SwapNeeded(l1, rhs)
                             THEN rhs >= l1 ELSE l1 >= rhs
             /\ lhs = 0
                   => /\ rhs * 2^shift <= UMax
                      /\ rhs * 2^shift <= acc \/ rhs * 2^shift <= elems[idx]

C8_Witness ==
    /\ fn = "gcd" /\ pc = "stein" /\ lhs = 0 /\ shift >= 1
    /\ elems[1] > SMax /\ elems[2] > elems[1]
    /\ overflow_checks

\* C9: for all unsigned inputs every signed value extended_gcd computes fits
\* the signed type of the same width: the cast of q, the products q*x1 and
\* q*y1 and the new coefficients, in every iteration.
C9_SignedValuesFit ==
    InEuclid
        => faults \cap {"cast_wrap", "i_mul_overflow", "i_sub_overflow"} = {}

\* The call is over: gcd_many, gcd and extended_gcd have returned (the Euclid
\* loop left with rhs1 = 0), or an overflow check of the build has stopped
\* extended_gcd or the multiplications of lcm_many.
Completed ==
    \/ InGcd /\ pc = "ret"
    \/ InEuclid /\ pc = "ret" /\ rhs1 = 0
    \/ InEuclid /\ pc = "panic" /\ overflow_checks
    \/ InLcm /\ pc \in {"ret", "panic"}

====
